---- MODULE Spec2Model ----
(***************************************************************************)
(* A model of SkeletonPass::run (src/skeleton/Skeleton.cpp): the walk over *)
(* Module -> Function -> BasicBlock -> Instruction, the dyn_cast cascade   *)
(* that classifies each instruction, and the text it appends to errs().    *)
(*                                                                         *)
(* The report is modelled as a sequence of fragments.  A fragment is a     *)
(* record [tag, kind, node, fields]: tag says which piece of the report it *)
(* is, kind is the instruction kind (or the separator glyph), node is the  *)
(* position <<f>>, <<f, b>> or <<f, b, i>> of the IR object it renders and *)
(* fields is the sequence of its text lines, each a tuple of strings (the  *)
(* label followed by the interpolated values).                             *)
(***************************************************************************)
EXTENDS Integers, Sequences, FiniteSets, TLC

VARIABLES M, pc, f, b, i, bbCount, instCount, out, result

vars == <<M, pc, f, b, i, bbCount, instCount, out, result>>

(***************************************************************************)
(* Bounds of the explored programs.                                        *)
(***************************************************************************)
MaxFuncs == 2
MaxBlocks == 2
MaxInsts == 2
MaxBody == 1

SeqsUpTo(S, n) == UNION {[1..k -> S] : k \in 0..n}

(***************************************************************************)
(* Values.  vk is the most derived LLVM class of the value, name is ""     *)
(* when the value has no name, text is its canonical printed form.  A      *)
(* ConstantInt keeps its bit width and its bits as an unsigned number.     *)
(***************************************************************************)
RECURSIVE Pow2(_)
Pow2(n) == IF n = 0 THEN 1 ELSE 2 * Pow2(n - 1)

\* A variant that zero-extends, as getZExtValue does.
getSExtValueZext(width, bits) == bits

\* ConstantInt::getSExtValue: the bits read as a two's complement number.
getSExtValue(width, bits) ==
    IF bits >= Pow2(width - 1) THEN bits - Pow2(width) ELSE bits

Val(vk, name, ty, text) ==
    [vk |-> vk, name |-> name, ty |-> ty, text |-> text,
     width |-> 0, bits |-> 0, params |-> <<>>]

ConstInt(width, bits) ==
    [vk |-> "ConstantInt", name |-> "", ty |-> "i" \o ToString(width),
     text |-> "i" \o ToString(width) \o " " \o ToString(getSExtValue(width, bits)),
     width |-> width, bits |-> bits, params |-> <<>>]

Param(name, ty) == [name |-> name, ty |-> ty]

FuncVal(name, params) ==
    [vk |-> "Function", name |-> name, ty |-> "ptr", text |-> "ptr @" \o name,
     width |-> 0, bits |-> 0, params |-> params]

hasName(v) == v.name # ""

vA == Val("Argument", "a", "i32", "i32 %a")
vB == Val("Instruction", "b", "i32", "%b = load i32, ptr %p")
vTmp == Val("Instruction", "", "i32", "%1 = add i32 %a, 1")
vArg0 == Val("Argument", "", "i32", "i32 %0")
vPtr == Val("Instruction", "p", "ptr", "%p = alloca i32")
vCond == Val("Instruction", "c", "i1", "%c = icmp eq i32 %a, 0")
vFP == Val("ConstantFP", "", "double", "double 1.0")
vFnPtr == Val("Instruction", "fp", "ptr", "%fp = load ptr, ptr %p")

(***************************************************************************)
(* Instructions.  cls is the most derived LLVM class; ops are the operands *)
(* (for a call: the actual arguments followed by the called operand; for a *)
(* conditional branch: the condition); succs are the names of the          *)
(* successor blocks of a branch; allocSize is the optional result of       *)
(* AllocaInst::getAllocationSize (<<>> when there is none).                *)
(***************************************************************************)
Inst(op, cls, ty, text, ops) ==
    [op |-> op, cls |-> cls, ty |-> ty, text |-> text, ops |-> ops,
     align |-> 0, allocTy |-> "", allocSize |-> <<>>, pred |-> "", succs |-> <<>>]

Alloca(allocTy, size, align, arraySize) ==
    [Inst("alloca", "AllocaInst", "ptr", "%p = alloca " \o allocTy, <<arraySize>>)
        EXCEPT !.allocTy = allocTy, !.allocSize = size, !.align = align]

ICmp(pred) ==
    [Inst("icmp", "ICmpInst", "i1", "%c = icmp i32 %a, 7", <<vA, ConstInt(8, 7)>>)
        EXCEPT !.pred = pred]

Br(cond, succs) ==
    [Inst("br", "BranchInst", "void", "br", cond) EXCEPT !.succs = succs]

Ret(ops) == Inst("ret", "ReturnInst", "void", "ret", ops)

Call(args, callee) ==
    Inst("call", "CallInst", "i32", "%r = call", args \o <<callee>>)

ParamLists ==
    {<<>>, <<Param("x", "i32")>>, <<Param("", "ptr")>>, <<Param("x", "i32"), Param("", "ptr")>>}

ICmpPredicates ==
    {"ICMP_EQ", "ICMP_NE", "ICMP_SGT", "ICMP_SGE", "ICMP_SLT", "ICMP_SLE", "ICMP_UGT"}

NonTerminators ==
    { Inst("add", "BinaryOperator", "i32", "%s = add i32 %a, %b", <<vA, vB>>),
      Alloca("i32", <<4>>, 4, ConstInt(8, 1)),
      Alloca("i32", <<>>, 4, vA),
      [Inst("load", "LoadInst", "i32", "%b = load i32, ptr %p", <<vPtr>>) EXCEPT !.align = 4],
      [Inst("store", "StoreInst", "void", "store i32 %a, ptr %p", <<vA, vPtr>>) EXCEPT !.align = 4],
      Call(<<vA, vTmp>>, FuncVal("callee", <<Param("x", "i32"), Param("", "i32")>>)),
      Call(<<vA>>, vFnPtr),
      Inst("fcmp", "FCmpInst", "i1", "%c = fcmp olt double %x, 1.0", <<vFP, vFP>>),
      Inst("trunc", "TruncInst", "i8", "%t = trunc i32 %a to i8", <<vA>>),
      Inst("getelementptr", "GetElementPtrInst", "ptr", "%g = getelementptr", <<vPtr, vA>>),
      Inst("select", "SelectInst", "i32", "%s = select", <<vCond, vA, vB>>),
      Inst("phi", "PHINode", "i32", "%s = phi", <<vA, vB>>) }
    \cup {ICmp(p) : p \in ICmpPredicates}

\* The terminators that may end the entry block of a function whose other
\* blocks are named next ("" when that block has no name) and "else".
Terminators(next) ==
    { Ret(<<>>),
      Ret(<<ConstInt(8, 42)>>),
      Ret(<<ConstInt(8, 255)>>),
      Ret(<<vB>>),
      Ret(<<vTmp>>),
      Ret(<<vArg0>>),
      Ret(<<vFP>>),
      Br(<<>>, <<next>>),
      Br(<<vCond>>, <<next, "else">>),
      Br(<<vCond>>, <<"else", next>>),
      Inst("switch", "SwitchInst", "void", "switch", <<vA>>),
      Inst("unreachable", "UnreachableInst", "void", "unreachable", <<>>),
      Inst("invoke", "InvokeInst", "i32", "%r = invoke", <<FuncVal("g", <<>>)>>) }

(***************************************************************************)
(* Programs.  A Module is [name, funcs]; a Function is [name, retTy, args, *)
(* blocks] and is a declaration exactly when it has no blocks; a           *)
(* BasicBlock is [name, insts].                                            *)
(*                                                                         *)
(* Three families of modules are explored.  StructPrograms vary the shape: *)
(* up to MaxFuncs functions, each a declaration or a definition of up to   *)
(* MaxBlocks blocks of up to MaxInsts instructions (the blocks of one      *)
(* function take their sizes in rotation, starting from a chosen one).     *)
(* ContentPrograms vary the instructions: one definition whose entry block *)
(* holds up to MaxBody non-terminators and any terminator.                 *)
(* SignaturePrograms vary the parameter list of a definition.              *)
(***************************************************************************)
AddInst == Inst("add", "BinaryOperator", "i32", "%s = add i32 %a, %b", <<vA, vB>>)

BlockName(k) == IF k = 1 THEN "entry" ELSE "bb" \o ToString(k)

StructBlock(k, nb, size) ==
    [name |-> BlockName(k),
     insts |-> [j \in 1..size |->
                  IF j < size THEN AddInst
                  ELSE IF k = nb THEN Ret(<<>>)
                  ELSE Br(<<>>, <<BlockName(k + 1)>>)]]

\* A function shape: <<0, 0, args>> is a declaration, <<nb, n, <<>>>> a
\* definition of nb blocks where block k holds 1 + (n + k) % MaxInsts
\* instructions.
FuncShapes ==
    {<<0, 0, a>> : a \in ParamLists}
    \cup {<<nb, n, <<>>>> : nb \in 1..MaxBlocks, n \in 1..MaxInsts}

StructFunction(k, shape) ==
    [name |-> "f" \o ToString(k), retTy |-> "void", args |-> shape[3],
     blocks |-> [j \in 1..shape[1] |->
                   StructBlock(j, shape[1], 1 + ((shape[2] + j) % MaxInsts))]]

StructPrograms ==
    {[name |-> "struct", funcs |-> [k \in DOMAIN s |-> StructFunction(k, s[k])]] :
        s \in SeqsUpTo(FuncShapes, MaxFuncs)}

ContentFunction(body, next, term) ==
    [name |-> "main", retTy |-> "i32", args |-> <<>>,
     blocks |-> <<[name |-> "entry", insts |-> body \o <<term>>],
                  [name |-> next, insts |-> <<Ret(<<>>)>>],
                  [name |-> "else", insts |-> <<Ret(<<>>)>>]>>]

ContentPrograms ==
    {[name |-> "content", funcs |-> <<ContentFunction(c[1], c[2], c[3])>>] :
        c \in UNION {SeqsUpTo(NonTerminators, MaxBody) \X {next} \X Terminators(next) :
                        next \in {"then", ""}}}

SignaturePrograms ==
    {[name |-> "", funcs |-> <<[name |-> "sig", retTy |-> "void", args |-> a,
                                blocks |-> <<[name |-> "", insts |-> <<Ret(<<>>)>>]>>]>>] :
        a \in ParamLists}

Programs == StructPrograms \cup ContentPrograms \cup SignaturePrograms

(***************************************************************************)
(* The classifier: the dyn_cast cascade over the instruction's class.      *)
(***************************************************************************)
\* The classes an instruction of most derived class cls is an instance of,
\* besides those every instruction is an instance of.
Supers(cls) ==
    CASE cls = "AllocaInst" -> {"AllocaInst", "UnaryInstruction"}
      [] cls = "LoadInst" -> {"LoadInst", "UnaryInstruction"}
      [] cls = "CallInst" -> {"CallInst", "CallBase"}
      [] cls = "InvokeInst" -> {"InvokeInst", "CallBase"}
      [] cls = "ICmpInst" -> {"ICmpInst", "CmpInst"}
      [] cls = "FCmpInst" -> {"FCmpInst", "CmpInst"}
      [] cls = "TruncInst" -> {"TruncInst", "CastInst", "UnaryInstruction"}
      [] OTHER -> {cls}

\* isa<C>(&I).  Operator::classof accepts every Instruction.
isa(I, C) == C \in Supers(I.cls) \cup {"Value", "User", "Instruction", "Operator"}

Kinds ==
    <<"BinaryArithmetic", "StackAllocation", "Load", "Store", "Call", "Branch",
      "Return", "Compare", "Cast", "GenericOperator", "Unknown">>

\* The class each kind's branch of the cascade tests for (the final else
\* tests nothing).
KindClass(kind) ==
    CASE kind = "BinaryArithmetic" -> "BinaryOperator"
      [] kind = "StackAllocation" -> "AllocaInst"
      [] kind = "Load" -> "LoadInst"
      [] kind = "Store" -> "StoreInst"
      [] kind = "Call" -> "CallInst"
      [] kind = "Branch" -> "BranchInst"
      [] kind = "Return" -> "ReturnInst"
      [] kind = "Compare" -> "CmpInst"
      [] kind = "Cast" -> "CastInst"
      [] kind = "GenericOperator" -> "Operator"
      [] OTHER -> "Value"

\* A variant of the cascade that tests the Operator capability first.
ClassifyOperatorFirst(I) ==
    IF isa(I, "Operator") THEN "GenericOperator"
    ELSE IF isa(I, "BinaryOperator") THEN "BinaryArithmetic"
    ELSE IF isa(I, "CastInst") THEN "Cast"
    ELSE "Unknown"

\* A variant of the cascade without its last two branches.
ClassifyNoFallback(I) ==
    IF isa(I, "BinaryOperator") THEN "BinaryArithmetic"
    ELSE IF isa(I, "AllocaInst") THEN "StackAllocation"
    ELSE IF isa(I, "LoadInst") THEN "Load"
    ELSE IF isa(I, "StoreInst") THEN "Store"
    ELSE IF isa(I, "CallInst") THEN "Call"
    ELSE IF isa(I, "BranchInst") THEN "Branch"
    ELSE IF isa(I, "ReturnInst") THEN "Return"
    ELSE IF isa(I, "CmpInst") THEN "Compare"
    ELSE IF isa(I, "CastInst") THEN "Cast"
    ELSE "None"

\* The cascade of run: the first branch whose dyn_cast succeeds.
Classify(I) ==
    IF isa(I, "BinaryOperator") THEN "BinaryArithmetic"
    ELSE IF isa(I, "AllocaInst") THEN "StackAllocation"
    ELSE IF isa(I, "LoadInst") THEN "Load"
    ELSE IF isa(I, "StoreInst") THEN "Store"
    ELSE IF isa(I, "CallInst") THEN "Call"
    ELSE IF isa(I, "BranchInst") THEN "Branch"
    ELSE IF isa(I, "ReturnInst") THEN "Return"
    ELSE IF isa(I, "CmpInst") THEN "Compare"
    ELSE IF isa(I, "CastInst") THEN "Cast"
    ELSE IF isa(I, "Operator") THEN "GenericOperator"
    ELSE "Unknown"

(***************************************************************************)
(* The renderer: the lines each branch of the cascade appends.             *)
(***************************************************************************)
Frag(tag, kind, node, fields) ==
    [tag |-> tag, kind |-> kind, node |-> node, fields |-> fields]

\* (x.hasName() ? x.getName() : "unnamed")
NameOrUnnamed(x) == IF hasName(x) THEN x.name ELSE "unnamed"

ParamLines(params) == [k \in DOMAIN params |-> <<"*", NameOrUnnamed(params[k]), params[k].ty>>]

RenderBinary(I) ==
    << <<"Binary Operation", I.op>>,
       <<"Operand 1", I.ops[1].text>>,
       <<"Operand 2", I.ops[2].text>> >>

\* errs() << std::optional<TypeSize>: the size, or "None" when there is none.
AllocationSizeText(I) ==
    IF I.allocSize = <<>> THEN "None" ELSE ToString(I.allocSize[1])

RenderAlloca(I) ==
    << <<"Stack Allocation (alloca)">>,
       <<"Type", I.allocTy>>,
       <<"Size", AllocationSizeText(I), "bytes">>,
       <<"Alignment", ToString(I.align), "bytes">> >>

RenderLoad(I) ==
    << <<"Load from Memory">>,
       <<"Source", I.ops[1].text>>,
       <<"Type", I.ty>>,
       <<"Alignment", ToString(I.align), "bytes">> >>

RenderStore(I) ==
    << <<"Store to Memory">>,
       <<"Value", I.ops[1].text>>,
       <<"Destination", I.ops[2].text>>,
       <<"Alignment", ToString(I.align), "bytes">> >>

\* CallBase: the called operand is the last operand, the actual arguments
\* are the operands before it; getCalledFunction is the called operand
\* when it is a Function, else null (<<>>).
getCalledOperand(I) == I.ops[Len(I.ops)]
CallArgs(I) == SubSeq(I.ops, 1, Len(I.ops) - 1)
getCalledFunction(I) ==
    IF getCalledOperand(I).vk = "Function" THEN <<getCalledOperand(I)>> ELSE <<>>

RenderCall(I) ==
    IF getCalledFunction(I) # <<>>
    THEN << <<"Function Call", getCalledFunction(I)[1].name>>,
            <<"Arguments", ToString(Len(CallArgs(I)))>> >>
         \o [k \in DOMAIN CallArgs(I) |-> <<"Arg", ToString(k), CallArgs(I)[k].text>>]
         \o << <<"Target Function Signature">> >>
         \o ParamLines(getCalledFunction(I)[1].params)
    ELSE << <<"Indirect Function Call">>,
            <<"Target", getCalledOperand(I).text>> >>

\* BranchInst::isConditional: the branch carries a condition operand.
isConditional(I) == Len(I.ops) > 0

RenderBranch(I) ==
    IF isConditional(I)
    THEN << <<"Conditional Branch">>,
            <<"Condition", I.ops[1].text>>,
            <<"True Block", I.succs[1]>>,
            <<"False Block", I.succs[2]>> >>
    ELSE << <<"Unconditional Branch">>,
            <<"Target", I.succs[1]>> >>

RenderReturn(I) ==
    IF I.ops # <<>>
    THEN LET retVal == I.ops[1] IN
         << <<"Return Statement">>, <<"Type", retVal.ty>> >>
         \o (IF hasName(retVal)
             THEN << <<"Value", retVal.name>> >>
             ELSE << <<"Value", "(unnamed temporary)">> >>
                  \o (IF retVal.vk = "Instruction"
                      THEN << <<"Source", retVal.text>> >>
                      ELSE IF retVal.vk = "ConstantInt"
                      THEN << <<"Constant", ToString(getSExtValue(retVal.width, retVal.bits))>> >>
                      ELSE <<>>))
    ELSE << <<"Return Statement (void)">> >>

PredicateName(pred) ==
    CASE pred = "ICMP_EQ" -> "Equal (==)"
      [] pred = "ICMP_NE" -> "Not Equal (!=)"
      [] pred = "ICMP_SGT" -> "Signed Greater Than (>)"
      [] pred = "ICMP_SGE" -> "Signed Greater or Equal (>=)"
      [] pred = "ICMP_SLT" -> "Signed Less Than (<)"
      [] pred = "ICMP_SLE" -> "Signed Less or Equal (<=)"
      [] OTHER -> "Other"

\* A variant that reads the two operands in the other order.
RenderCompareSwapped(I) ==
    << <<"Comparison Instruction">> >>
    \o (IF isa(I, "ICmpInst")
        THEN << <<"Type", "Integer Comparison">>,
                <<"Predicate", PredicateName(I.pred)>> >>
        ELSE <<>>)
    \o << <<"Left Operand", I.ops[2].text>>,
          <<"Right Operand", I.ops[1].text>> >>

RenderCompare(I) ==
    << <<"Comparison Instruction">> >>
    \o (IF isa(I, "ICmpInst")
        THEN << <<"Type", "Integer Comparison">>,
                <<"Predicate", PredicateName(I.pred)>> >>
        ELSE <<>>)
    \o << <<"Left Operand", I.ops[1].text>>,
          <<"Right Operand", I.ops[2].text>> >>

RenderCast(I) ==
    << <<"Cast Operation", I.op>>,
       <<"From", I.ops[1].ty>>,
       <<"To", I.ty>>,
       <<"Source", I.ops[1].text>> >>

RenderOperator(I) ==
    << <<"Other Operator", I.op>>,
       <<"Operands", ToString(Len(I.ops))>> >>
    \o [k \in DOMAIN I.ops |-> <<"Op", ToString(k - 1), I.ops[k].text>>]

RenderUnknown(I) ==
    << <<"Unknown Instruction Type">>,
       <<"Opcode", I.op>> >>

RenderKind(kind, I) ==
    CASE kind = "BinaryArithmetic" -> RenderBinary(I)
      [] kind = "StackAllocation" -> RenderAlloca(I)
      [] kind = "Load" -> RenderLoad(I)
      [] kind = "Store" -> RenderStore(I)
      [] kind = "Call" -> RenderCall(I)
      [] kind = "Branch" -> RenderBranch(I)
      [] kind = "Return" -> RenderReturn(I)
      [] kind = "Compare" -> RenderCompare(I)
      [] kind = "Cast" -> RenderCast(I)
      [] kind = "GenericOperator" -> RenderOperator(I)
      [] kind = "Unknown" -> RenderUnknown(I)
      [] OTHER -> <<>>

\* One iteration of the instruction loop: the numbered line of the
\* instruction, then the fragment of the branch the cascade takes.
RenderInstruction(I, node, count) ==
    << Frag("InstLine", "", node, << <<ToString(count), I.text>> >>),
       Frag("Inst", Classify(I), node, RenderKind(Classify(I), I)) >>

(***************************************************************************)
(* The walker: SkeletonPass::run as a state machine.  pc is the position   *)
(* in run: "start" before the banner, "func" at the head of the function   *)
(* loop, "block" at the head of the block loop, "inst" at the head of the  *)
(* instruction loop, "done" after the return.  f, b and i are the three    *)
(* loops' iterators; bbCount and instCount are the counters run keeps.     *)
(***************************************************************************)
isDeclaration(F) == Len(F.blocks) = 0

CurF == M.funcs[f]
CurBB == CurF.blocks[b]
CurI == CurBB.insts[i]

Init ==
    /\ M \in Programs
    /\ pc = "start"
    /\ f = 0
    /\ b = 0
    /\ i = 0
    /\ bbCount = 0
    /\ instCount = 0
    /\ out = <<>>
    /\ result = "none"

\* The banner naming the module; the function loop starts.
Begin ==
    /\ pc = "start"
    /\ out' = Append(out, Frag("ModuleHeader", "", <<>>, << <<"Module", M.name>> >>))
    /\ pc' = "func"
    /\ f' = 1
    /\ UNCHANGED <<M, b, i, bbCount, instCount, result>>

\* A variant without the continue: after the declaration fragment it falls
\* through to the definition header and the block loop.
VisitDeclarationFallingThrough ==
    /\ pc = "func"
    /\ f <= Len(M.funcs)
    /\ isDeclaration(CurF)
    /\ out' = out \o
          << Frag("Declaration", "", <<f>>,
                  << <<"External Function Declaration", CurF.name>> >>),
             Frag("Definition", "", <<f>>,
                  << <<"Function Definition", CurF.name>> >>) >>
    /\ bbCount' = 0
    /\ b' = 1
    /\ pc' = "block"
    /\ UNCHANGED <<M, f, i, instCount, result>>

\* A declaration: its fragment, then continue with the next function.
VisitDeclaration ==
    /\ pc = "func"
    /\ f <= Len(M.funcs)
    /\ isDeclaration(CurF)
    /\ out' = Append(out,
          Frag("Declaration", "", <<f>>,
               << <<"External Function Declaration", CurF.name>>,
                  <<"Return Type", CurF.retTy>>,
                  <<"Parameters", ToString(Len(CurF.args))>> >>
               \o ParamLines(CurF.args)))
    /\ f' = f + 1
    /\ UNCHANGED <<M, pc, b, i, bbCount, instCount, result>>

\* A definition: its header, then the block loop starts.
EnterDefinition ==
    /\ pc = "func"
    /\ f <= Len(M.funcs)
    /\ ~isDeclaration(CurF)
    /\ out' = Append(out,
          Frag("Definition", "", <<f>>,
               << <<"Function Definition", CurF.name>>,
                  <<"Return Type", CurF.retTy>>,
                  <<"Parameters", ToString(Len(CurF.args))>>,
                  <<"Basic Blocks", ToString(Len(CurF.blocks))>> >>
               \o (IF Len(CurF.args) > 0 THEN << <<"Function Arguments">> >> ELSE <<>>)
               \o ParamLines(CurF.args)))
    /\ bbCount' = 0
    /\ b' = 1
    /\ pc' = "block"
    /\ UNCHANGED <<M, f, i, instCount, result>>

\* The head of a block: its header, then the instruction loop starts.
EnterBlock ==
    /\ pc = "block"
    /\ b <= Len(CurF.blocks)
    /\ bbCount' = bbCount + 1
    /\ out' = Append(out,
          Frag("BlockHeader", "", <<f, b>>,
               << <<"Basic Block", ToString(bbCount + 1), NameOrUnnamed(CurBB)>>,
                  <<"Instructions", ToString(Len(CurBB.insts))>> >>))
    /\ instCount' = 0
    /\ i' = 1
    /\ pc' = "inst"
    /\ UNCHANGED <<M, f, b, result>>

\* A variant whose iterator advances by two.
VisitInstructionSkipping ==
    /\ pc = "inst"
    /\ i <= Len(CurBB.insts)
    /\ instCount' = instCount + 1
    /\ out' = out \o RenderInstruction(CurI, <<f, b, i>>, instCount + 1)
    /\ i' = i + 2
    /\ UNCHANGED <<M, pc, f, b, bbCount, result>>

\* A variant that gives up at a stack allocation without a size.
VisitInstructionAborting ==
    /\ pc = "inst"
    /\ i <= Len(CurBB.insts)
    /\ instCount' = instCount + 1
    /\ out' = out \o RenderInstruction(CurI, <<f, b, i>>, instCount + 1)
    /\ i' = i + 1
    /\ pc' = IF Classify(CurI) = "StackAllocation" /\ CurI.allocSize = <<>>
             THEN "aborted" ELSE pc
    /\ UNCHANGED <<M, f, b, bbCount, result>>

\* One instruction: its numbered line and its kind's fragment.
VisitInstruction ==
    /\ pc = "inst"
    /\ i <= Len(CurBB.insts)
    /\ instCount' = instCount + 1
    /\ out' = out \o RenderInstruction(CurI, <<f, b, i>>, instCount + 1)
    /\ i' = i + 1
    /\ UNCHANGED <<M, pc, f, b, bbCount, result>>

\* A variant that compares with the first block.
SeparatorKindFront(F, k) == IF k # 1 THEN "interior" ELSE "final"

\* &BB != &F.back()
SeparatorKind(F, k) == IF k # Len(F.blocks) THEN "interior" ELSE "final"

\* After the last instruction of a block: the closing separator.
CloseBlock ==
    /\ pc = "inst"
    /\ i > Len(CurBB.insts)
    /\ out' = Append(out, Frag("Separator", SeparatorKind(CurF, b), <<f, b>>, <<>>))
    /\ b' = b + 1
    /\ pc' = "block"
    /\ UNCHANGED <<M, f, i, bbCount, instCount, result>>

\* After the last block of a definition: the rule closing the function.
CloseDefinition ==
    /\ pc = "block"
    /\ b > Len(CurF.blocks)
    /\ out' = Append(out, Frag("FunctionEnd", "", <<f>>, <<>>))
    /\ f' = f + 1
    /\ pc' = "func"
    /\ UNCHANGED <<M, b, i, bbCount, instCount, result>>

\* A variant that appends the completion banner twice.
FinishTwice ==
    /\ pc = "func"
    /\ f > Len(M.funcs)
    /\ out' = out \o << Frag("Complete", "", <<>>, << <<"Analysis Complete!">> >>),
                        Frag("Complete", "", <<>>, << <<"Analysis Complete!">> >>) >>
    /\ result' = "PreservedAnalyses::all"
    /\ pc' = "done"
    /\ UNCHANGED <<M, f, b, i, bbCount, instCount>>

\* After the last function: the completion banner and the return.
Finish ==
    /\ pc = "func"
    /\ f > Len(M.funcs)
    /\ out' = Append(out, Frag("Complete", "", <<>>, << <<"Analysis Complete!">> >>))
    /\ result' = "PreservedAnalyses::all"
    /\ pc' = "done"
    /\ UNCHANGED <<M, f, b, i, bbCount, instCount>>

Next ==
    \/ Begin
    \/ VisitDeclaration
    \/ EnterDefinition
    \/ EnterBlock
    \/ VisitInstruction
    \/ CloseBlock
    \/ CloseDefinition
    \/ Finish

Spec == Init /\ [][Next]_vars

\* run is one synchronous call: once entered it runs every step to the end.
LiveSpec == Spec /\ WF_vars(Next)

(***************************************************************************)
(* Vocabulary of the properties.                                           *)
(***************************************************************************)
Range(s) == {s[k] : k \in DOMAIN s}

IsPrefix(s, t) == Len(s) <= Len(t) /\ SubSeq(t, 1, Len(s)) = s

RECURSIVE Flatten(_)
Flatten(ss) == IF ss = <<>> THEN <<>> ELSE Head(ss) \o Flatten(Tail(ss))

InstAt(node) == M.funcs[node[1]].blocks[node[2]].insts[node[3]]

Indices(tag) == {k \in DOMAIN out : out[k].tag = tag}

HasLine(frag, line) == \E k \in DOMAIN frag.fields : frag.fields[k] = line

HasLabel(frag, label) == \E k \in DOMAIN frag.fields : frag.fields[k][1] = label

IsFragmentTag(fr) == fr.tag \in {"Declaration", "Definition", "BlockHeader", "Inst"}

\* The function, block and instruction fragments of the report, in the
\* order they were appended, each as <<tag, node>>.
Outline ==
    LET sel == SelectSeq(out, IsFragmentTag)
    IN [k \in DOMAIN sel |-> <<sel[k].tag, sel[k].node>>]

\* The depth-first enumeration of the module in its native order.
ExpectedBlock(fn, bn) ==
    << <<"BlockHeader", <<fn, bn>>>> >>
    \o [k \in 1..Len(M.funcs[fn].blocks[bn].insts) |-> <<"Inst", <<fn, bn, k>>>>]

ExpectedFunction(fn) ==
    IF Len(M.funcs[fn].blocks) = 0
    THEN << <<"Declaration", <<fn>>>> >>
    ELSE << <<"Definition", <<fn>>>> >>
         \o Flatten([bn \in 1..Len(M.funcs[fn].blocks) |-> ExpectedBlock(fn, bn)])

ExpectedOutline == Flatten([fn \in 1..Len(M.funcs) |-> ExpectedFunction(fn)])

\* C1 (order preservation): at every moment the function, block and
\* instruction fragments appended so far are an initial part of the
\* depth-first enumeration of the module in its native order, and when run
\* has returned they are the whole enumeration: nothing is skipped,
\* duplicated or reordered, and a declaration contributes no block fragment.
OrderPreserved ==
    /\ IsPrefix(Outline, ExpectedOutline)
    /\ pc = "done" => Outline = ExpectedOutline

OrderPreservedWitness ==
    /\ pc = "done"
    /\ Len(M.funcs) >= 2
    /\ \E fn \in DOMAIN M.funcs : Len(M.funcs[fn].blocks) = 0
    /\ \E fn \in DOMAIN M.funcs :
          /\ Len(M.funcs[fn].blocks) >= 2
          /\ \E bn \in DOMAIN M.funcs[fn].blocks : Len(M.funcs[fn].blocks[bn].insts) >= 2

KindSet == Range(Kinds)

ModuleInstNodes ==
    UNION {UNION {{<<fn, bn, k>> : k \in DOMAIN M.funcs[fn].blocks[bn].insts} :
                     bn \in DOMAIN M.funcs[fn].blocks} :
              fn \in DOMAIN M.funcs}

KindFragments(node) == {k \in Indices("Inst") : out[k].node = node}

\* C2 (totality): every instruction whose numbered line has been appended
\* has exactly one kind fragment, directly after that line, its kind is one
\* of the eleven kinds and it is not empty; when run has returned every
\* instruction of the module has exactly one.
Totality ==
    /\ \A k \in Indices("Inst") : out[k].kind \in KindSet /\ out[k].fields # <<>>
    /\ \A k \in Indices("InstLine") :
          /\ k + 1 \in Indices("Inst")
          /\ out[k + 1].node = out[k].node
          /\ Cardinality(KindFragments(out[k].node)) = 1
    /\ pc = "done" => \A n \in ModuleInstNodes : Cardinality(KindFragments(n)) = 1

TotalityWitness ==
    /\ pc = "done"
    /\ \E k \in Indices("Inst") : out[k].kind = "GenericOperator"
    /\ \E k \in Indices("Inst") : out[k].kind = "Compare"

\* The kinds whose structural predicate the instruction satisfies, as
\* positions in the fixed order.
Matching(I) == {k \in DOMAIN Kinds : isa(I, KindClass(Kinds[k]))}

\* C3 (precedence): the kind of every kind fragment is the earliest kind,
\* in the fixed order, whose predicate the instruction satisfies.
Precedence ==
    \A k \in Indices("Inst") :
        LET m == Matching(InstAt(out[k].node))
        IN \E j \in m : out[k].kind = Kinds[j] /\ \A h \in m : j <= h

PrecedenceWitness ==
    \E k \in Indices("Inst") :
        /\ out[k].kind = "Cast"
        /\ Cardinality(Matching(InstAt(out[k].node))) >= 2

BlockTags == {"BlockHeader", "InstLine", "Inst", "Separator"}

\* C4 (declaration/definition split): a function without blocks is only
\* ever rendered by a declaration fragment and none of the block headers,
\* instruction fragments or separators belongs to it; a function with
\* blocks is only ever rendered by a definition header; when run has
\* returned every function has its one fragment and every block of every
\* definition has its one block header.
DeclarationDefinitionSplit ==
    /\ \A k \in DOMAIN out :
          /\ out[k].tag \in BlockTags => Len(M.funcs[out[k].node[1]].blocks) > 0
          /\ out[k].tag = "Declaration" => Len(M.funcs[out[k].node[1]].blocks) = 0
          /\ out[k].tag = "Definition" => Len(M.funcs[out[k].node[1]].blocks) > 0
    /\ pc = "done" =>
          \A fn \in DOMAIN M.funcs :
             LET own(tag) == {k \in Indices(tag) : out[k].node[1] = fn}
                 nb == Len(M.funcs[fn].blocks)
             IN /\ Cardinality(own("Declaration")) = (IF nb = 0 THEN 1 ELSE 0)
                /\ Cardinality(own("Definition")) = (IF nb = 0 THEN 0 ELSE 1)
                /\ \A bn \in 1..nb :
                      Cardinality({k \in own("BlockHeader") : out[k].node = <<fn, bn>>}) = 1

DeclarationDefinitionSplitWitness ==
    /\ pc = "done"
    /\ \E k \in Indices("Declaration") : TRUE
    /\ \E k \in Indices("BlockHeader") : out[k].node[2] = 2

\* C5 (last-block marker): the separator closing block k of a definition
\* of N blocks is the interior one when k < N and the final one when k = N;
\* when the function is closed, the fragment before its closing rule is its
\* final separator and it has no other final separator.
LastBlockMarker ==
    /\ \A k \in Indices("Separator") :
          out[k].kind = (IF out[k].node[2] < Len(M.funcs[out[k].node[1]].blocks)
                         THEN "interior" ELSE "final")
    /\ \A k \in Indices("FunctionEnd") :
          LET fn == out[k].node[1] IN
          /\ out[k - 1].tag = "Separator"
          /\ out[k - 1].kind = "final"
          /\ out[k - 1].node = <<fn, Len(M.funcs[fn].blocks)>>
          /\ Cardinality({j \in Indices("Separator") :
                             out[j].node[1] = fn /\ out[j].kind = "final"}) = 1
          /\ Cardinality({j \in Indices("Separator") : out[j].node[1] = fn})
                = Len(M.funcs[fn].blocks)

LastBlockMarkerWitness ==
    /\ pc = "done"
    /\ \E k \in Indices("Separator") : out[k].kind = "interior"
    /\ \E k \in Indices("Separator") :
          out[k].kind = "final" /\ Len(M.funcs[out[k].node[1]].blocks) = 1

\* The kind fragments of the returns of a literal integer constant.
ConstantReturns ==
    {k \in Indices("Inst") :
        /\ out[k].kind = "Return"
        /\ InstAt(out[k].node).ops # <<>>
        /\ InstAt(out[k].node).ops[1].vk = "ConstantInt"}

\* The numbers v of the signed range of the width that agree with the bits
\* modulo 2^width: the sign-extended value of the constant.
SignedValues(c) ==
    {v \in -Pow2(c.width - 1)..(Pow2(c.width - 1) - 1) : (v - c.bits) % Pow2(c.width) = 0}

\* C6 as stated (return of a literal constant): the fragment of a return of
\* a literal integer constant holds the constant's sign-extended value and
\* does not hold the "(unnamed temporary)" text.
ConstantReturnWithoutPlaceholder ==
    \A k \in ConstantReturns :
        /\ \E v \in SignedValues(InstAt(out[k].node).ops[1]) :
              HasLine(out[k], <<"Constant", ToString(v)>>)
        /\ ~HasLine(out[k], <<"Value", "(unnamed temporary)">>)

\* C6 as amended: the fragment of a return of a literal integer constant is
\* the marker, the type, the line "Value: (unnamed temporary)" and then a
\* Constant line holding the constant's sign-extended value.
ConstantReturnRendered ==
    \A k \in ConstantReturns :
        LET c == InstAt(out[k].node).ops[1]
        IN \E v \in SignedValues(c) :
              out[k].fields = << <<"Return Statement">>,
                                 <<"Type", c.ty>>,
                                 <<"Value", "(unnamed temporary)">>,
                                 <<"Constant", ToString(v)>> >>

ConstantReturnWitness ==
    /\ pc = "done"
    /\ \E k \in ConstantReturns :
          /\ InstAt(out[k].node).ops[1].bits = 255
          /\ HasLine(out[k], <<"Constant", "-1">>)

\* The names of blocks and parameters a fragment renders.
RenderedNames(fr) ==
    IF fr.tag = "BlockHeader" THEN {fr.fields[1][3]}
    ELSE IF fr.tag \in {"Declaration", "Definition"}
         \/ (fr.tag = "Inst" /\ fr.kind = "Call")
    THEN {fr.fields[k][2] : k \in {j \in DOMAIN fr.fields : fr.fields[j][1] = "*"}}
    ELSE IF fr.tag = "Inst" /\ fr.kind = "Branch"
    THEN {fr.fields[k][2] : k \in {j \in DOMAIN fr.fields :
                                      fr.fields[j][1] \in {"True Block", "False Block", "Target"}}}
    ELSE {}

\* C7 (missing names): no name of a block or of a parameter is rendered as
\* the empty string, whether in a block header, in a parameter list of a
\* declaration, a definition or a direct call's signature, or as a target
\* of a branch.
NamesNeverEmpty ==
    \A k \in DOMAIN out : "" \notin RenderedNames(out[k])

CompareFragments == {k \in Indices("Inst") : out[k].kind = "Compare"}

PredicateNames ==
    {"Equal (==)", "Not Equal (!=)", "Signed Greater Than (>)",
     "Signed Greater or Equal (>=)", "Signed Less Than (<)",
     "Signed Less or Equal (<=)", "Other"}

\* C8 as stated (compare rendering): every Compare fragment, of an integer
\* comparison or not, holds a category line, then a predicate line, then
\* the left operand and the right operand.
CompareAlwaysHasCategory ==
    \A k \in CompareFragments :
        LET I == InstAt(out[k].node)
            n == Len(out[k].fields)
        IN /\ n >= 4
           /\ out[k].fields[n - 3][1] = "Type"
           /\ out[k].fields[n - 2][1] = "Predicate"
           /\ out[k].fields[n - 1] = <<"Left Operand", I.ops[1].text>>
           /\ out[k].fields[n] = <<"Right Operand", I.ops[2].text>>

\* C8 as amended: every Compare fragment ends with the left operand and
\* then the right operand; the fragment of an integer comparison holds
\* before them the category "Integer Comparison" and a predicate name that
\* is one of the six named predicates or "Other"; the fragment of any other
\* comparison holds no category and no predicate.
CompareRendered ==
    \A k \in CompareFragments :
        LET I == InstAt(out[k].node)
            operands == << <<"Left Operand", I.ops[1].text>>,
                           <<"Right Operand", I.ops[2].text>> >>
        IN IF I.cls = "ICmpInst"
           THEN \E p \in PredicateNames :
                   out[k].fields = << <<"Comparison Instruction">>,
                                      <<"Type", "Integer Comparison">>,
                                      <<"Predicate", p>> >> \o operands
           ELSE out[k].fields = << <<"Comparison Instruction">> >> \o operands

CompareRenderedWitness ==
    /\ pc = "done"
    /\ \E k \in CompareFragments :
          /\ InstAt(out[k].node).cls = "FCmpInst"
          /\ ~HasLabel(out[k], "Predicate")
          /\ HasLabel(out[k], "Right Operand")

CompareRenderedIntegerWitness ==
    /\ pc = "done"
    /\ \E k \in CompareFragments : HasLine(out[k], <<"Predicate", "Other">>)

\* The kind fragments of the stack allocations that have no allocation size.
UnsizedAllocas ==
    {k \in Indices("Inst") :
        out[k].kind = "StackAllocation" /\ InstAt(out[k].node).allocSize = <<>>}

Completed ==
    /\ pc = "done"
    /\ result = "PreservedAnalyses::all"
    /\ out[Len(out)].tag = "Complete"
    /\ Cardinality(Indices("Complete")) = 1

\* C10 (completion): every run eventually returns, and then the completion
\* banner has been appended exactly once, as the last fragment of the
\* report, and the result is "all analyses preserved".
Completion == <>Completed

CompletionWitness ==
    /\ Completed
    /\ Len(M.funcs) >= 2
    /\ Len(out) > 6

====
